---------------------------- MODULE Spec2Model ----------------------------
(***************************************************************************)
(* Model of the maximum-matching repository:                              *)
(*   - FullMatrixBipartiteGraph (maximum_matching/graphs/bipartite_graph) *)
(*   - MaxFlow (maximum_matching/algorithms/max_flow)                     *)
(*                                                                         *)
(* Python lists and numpy arrays that are indexed by a vertex or node are  *)
(* functions over 0..n-1 (Python's 0-based indexing); sequences that are   *)
(* only iterated or appended to (independent sets, adjacency lists, the    *)
(* trend) are TLA+ sequences.                                              *)
(*                                                                         *)
(* Two specifications:                                                     *)
(*   SpecGraph  construction and queries of one FullMatrixBipartiteGraph   *)
(*   Spec       one MaxFlow instance whose run is called on graphs         *)
(***************************************************************************)
EXTENDS Integers, Sequences, FiniteSets, TLC

VARIABLES graph,   \* the graph object: size, size_left, size_right, matrix
          last,    \* the latest call on the graph and how it ended
          mf,      \* the MaxFlow instance: vec, visited, capacity, bfs_path
          res      \* how the latest MaxFlow.run ended: outcome, value

vars == <<graph, last, mf, res>>

(***************************************************************************)
(* Bounds of the model.                                                    *)
(***************************************************************************)
\* SpecGraph: size_left + size_right of the constructed graph
MaxVertices == 2
\* SpecGraph: number of elements of the js / rights array of one call
MaxJs == 2
\* Spec: size_left + size_right of the graphs passed to run
MaxSize == 5

Min(a, b) == IF a <= b THEN a ELSE b
Max(a, b) == IF a >= b THEN a ELSE b

(***************************************************************************)
(* numpy helpers used by bipartite_graph.py                                *)
(***************************************************************************)
\* np.arange(a, b): the integers a, a+1, ..., b-1 (empty when b <= a)
arange(a, b) == [k \in 1..Max(b - a, 0) |-> a + k - 1]

\* numpy accepts an integer index i on an axis of length n iff -n <= i < n ...
NpIndexOk(i, n) == i >= -n /\ i < n
\* ... and a negative index counts from the end of the axis
NpIndex(i, n) == IF i < 0 THEN i + n ELSE i

\* np.zeros((n, n), dtype=bool)
NpZeros(n) == [r \in 0..(n - 1) |-> [c \in 0..(n - 1) |-> FALSE]]

\* matrix[i, js] = True.  numpy checks every index before it writes any cell.
AssignRow(matrix, n, i, js) ==
    IF ~(NpIndexOk(i, n) /\ \A j \in js : NpIndexOk(j, n))
    THEN [raised |-> TRUE, matrix |-> matrix]
    ELSE [raised |-> FALSE,
          matrix |-> [r \in 0..(n - 1) |-> [c \in 0..(n - 1) |->
                        IF r = NpIndex(i, n) /\ c \in {NpIndex(j, n) : j \in js}
                        THEN TRUE ELSE matrix[r][c]]]]

\* matrix[js, i] = True
AssignCol(matrix, n, js, i) ==
    IF ~(NpIndexOk(i, n) /\ \A j \in js : NpIndexOk(j, n))
    THEN [raised |-> TRUE, matrix |-> matrix]
    ELSE [raised |-> FALSE,
          matrix |-> [r \in 0..(n - 1) |-> [c \in 0..(n - 1) |->
                        IF c = NpIndex(i, n) /\ r \in {NpIndex(j, n) : j \in js}
                        THEN TRUE ELSE matrix[r][c]]]]

(***************************************************************************)
(* FullMatrixBipartiteGraph                                                *)
(***************************************************************************)
\* __init__(size_left, size_right)
NewGraph(sl, sr) ==
    [size |-> sl + sr, size_left |-> sl, size_right |-> sr,
     matrix |-> NpZeros(sl + sr)]

get_independent_set(g, left_set) ==
    IF left_set
    THEN arange(0, g.size_left)
    ELSE arange(g.size_left, g.size_right)

\* np.where(row)[0]: the indices of the True cells of row, ascending
RECURSIVE NpWhere(_, _, _)
NpWhere(row, n, c) ==
    IF c >= n THEN <<>>
    ELSE IF row[c] THEN <<c>> \o NpWhere(row, n, c + 1)
    ELSE NpWhere(row, n, c + 1)

list(g, i) == NpWhere(g.matrix[NpIndex(i, g.size)], g.size, 0)

connected(g, i, j) == g.matrix[NpIndex(i, g.size)][NpIndex(j, g.size)]

\* bulk_connect without its second assignment (the mirrored cells)
bulk_connect_OneWay(g, i, js) ==
    LET a == AssignRow(g.matrix, g.size, i, js)
    IN  [raised |-> a.raised, graph |-> [g EXCEPT !.matrix = a.matrix]]

\* bulk_connect(i, js): the two assignments in order; the first that raises
\* ends the call
bulk_connect(g, i, js) ==
    LET a == AssignRow(g.matrix, g.size, i, js)
    IN  IF a.raised
        THEN [raised |-> TRUE, graph |-> g]
        ELSE LET b == AssignCol(a.matrix, g.size, js, i)
             IN  [raised |-> b.raised,
                  graph |-> [g EXCEPT !.matrix = b.matrix]]

\* b_bulk_connect(left, rights): rights are indices within the right set
b_bulk_connect(g, left, rights) ==
    LET js == {r + g.size_left : r \in rights}
        a  == AssignRow(g.matrix, g.size, left, js)
    IN  IF a.raised
        THEN [raised |-> TRUE, graph |-> g]
        ELSE LET b == AssignCol(a.matrix, g.size, js, left)
             IN  [raised |-> b.raised,
                  graph |-> [g EXCEPT !.matrix = b.matrix]]

(***************************************************************************)
(* MaxFlow                                                                 *)
(***************************************************************************)
\* a Python list of length 0
EmptyList == [i \in {} |-> 0]

\* The class-level fields: what a MaxFlow instance reads before it assigns
\* them.
ClassFields ==
    [vec |-> EmptyList, visited |-> EmptyList, capacity |-> EmptyList,
     bfs_path |-> EmptyList]

\* BipartiteSet (maximum_matching/graphs/graph_base) selects the partition
\* that get_independent_set returns: left is the left_set=True request, right
\* the left_set=False one.
BipartiteSet_left == TRUE
BipartiteSet_right == FALSE

\* len(l) of a Python list l
PyLen(l) == Cardinality(DOMAIN l)
\* A Python list l accepts the index i iff -len(l) <= i < len(l) ...
PyIndexOk(i, l) == i >= -PyLen(l) /\ i < PyLen(l)
\* ... and a negative index counts from the end of the list
PyIndex(i, l) == IF i < 0 THEN i + PyLen(l) ELSE i

\* make_edge(u, v, cap).  An adjacency list that is None is the empty
\* sequence: make_edge never leaves a list empty.  capacity and vec are
\* Python lists: an index outside -len..len-1 raises IndexError, a negative
\* one selects from the end; v is appended to the adjacency list as it was
\* passed.
make_edge(s, u, v, cap) ==
    IF s.err # "ok" THEN s
    ELSE IF ~PyIndexOk(u, s.mf.capacity)
    THEN [s EXCEPT !.err = "IndexError"]
    ELSE IF ~PyIndexOk(v, s.mf.capacity[PyIndex(u, s.mf.capacity)])
    THEN [s EXCEPT !.err = "IndexError"]
    ELSE LET ru == PyIndex(u, s.mf.capacity)
             rv == PyIndex(v, s.mf.capacity[ru])
             c  == [s.mf.capacity EXCEPT ![ru][rv] = cap]
         IN  IF ~PyIndexOk(u, s.mf.vec)
             THEN [err |-> "IndexError", mf |-> [s.mf EXCEPT !.capacity = c]]
             ELSE [err |-> "ok",
                   mf |-> [s.mf EXCEPT
                             !.capacity = c,
                             !.vec = [@ EXCEPT ![PyIndex(u, s.mf.vec)] =
                                                  Append(@, v)]]]

\* for x in xs: make_edge(...) over a sequence of <<u, v, cap>>
RECURSIVE MakeEdges(_, _)
MakeEdges(s, edges) ==
    IF edges = <<>> \/ s.err # "ok" THEN s
    ELSE MakeEdges(make_edge(s, Head(edges)[1], Head(edges)[2], Head(edges)[3]),
                   Tail(edges))

\* self.vec = [None] * total_nodes; self.capacity = total_nodes x total_nodes
\* zeros
ResetNetwork(fields, total_nodes) ==
    [fields EXCEPT
       !.vec = [u \in 0..(total_nodes - 1) |-> <<>>],
       !.capacity = [u \in 0..(total_nodes - 1) |->
                       [v \in 0..(total_nodes - 1) |-> 0]]]

\* for i in range(right_idx + 1): v = right_side[i]; for u in graph.list(v):
\* make_edge(u, v, 1).  right_side is a numpy array: right_side[i] raises
\* IndexError when i >= len(right_side).
RECURSIVE ConnectRevealed(_, _, _, _, _)
ConnectRevealed(s, g, right_side, i, right_idx) ==
    IF i > right_idx \/ s.err # "ok" THEN s
    ELSE IF i >= Len(right_side) THEN [s EXCEPT !.err = "IndexError"]
    ELSE LET v == right_side[i + 1]
             neighbours == list(g, v)
         IN  ConnectRevealed(
               MakeEdges(s, [k \in 1..Len(neighbours) |-> <<neighbours[k], v, 1>>]),
               g, right_side, i + 1, right_idx)

\* One pass of prepare_graph's loop body up to the call of run_max_flow: the
\* flow network of reveal step right_idx.
BuildNetwork(fields, g, right_idx, sourceSinkCap) ==
    LET left_side   == get_independent_set(g, BipartiteSet_left)
        right_side  == get_independent_set(g, BipartiteSet_right)
        source_node == g.size + 1
        sink_node   == g.size + 2
        total_nodes == g.size + 3
        s0 == [err |-> "ok", mf |-> ResetNetwork(fields, total_nodes)]
        s1 == MakeEdges(s0, [k \in 1..Len(left_side) |->
                               <<source_node, left_side[k], sourceSinkCap>>])
        s2 == MakeEdges(s1, [k \in 1..Len(right_side) |->
                               <<right_side[k], sink_node, sourceSinkCap>>])
    IN  ConnectRevealed(s2, g, right_side, 0, right_idx)

(***************************************************************************)
(* run_max_flow(src, sink, n)                                              *)
(***************************************************************************)
\* lines 48-50: max_flow = 0, min_capacity = INF, visited = [False] * n
run_max_flow_entry(fields, n) ==
    [fields EXCEPT !.visited = [x \in 0..(n - 1) |-> FALSE]]

\* run_max_flow as the program executes it: after line 50 the statement
\* `trends.append([len(visited_nodes_for_trends), max_flow])` names two
\* variables that are defined neither in the function nor in the module, so
\* it raises NameError before the loop is entered.  The loop (lines 54-72) and
\* BFS (lines 19-44), which only the loop calls, are therefore never executed
\* and have no counterpart here.
run_max_flow(fields, src, sink, n) ==
    [err |-> "NameError", mf |-> run_max_flow_entry(fields, n), max_flow |-> 0]

(***************************************************************************)
(* prepare_graph(graph, sourceSinkCap=1) and run(graph)                    *)
(***************************************************************************)
\* for right_idx in range(graph.size_right); s carries the locals
\* visited_nodes, max_matches, trends, the instance fields and the exception
\* raised so far
RECURSIVE RevealLoop(_, _, _, _)
RevealLoop(s, g, right_idx, sourceSinkCap) ==
    IF right_idx >= g.size_right \/ s.err # "ok" THEN s
    ELSE LET b == BuildNetwork(s.mf, g, right_idx, sourceSinkCap)
         IN  IF b.err # "ok"
             THEN [s EXCEPT !.err = b.err, !.mf = b.mf]
             ELSE LET f == run_max_flow(b.mf, g.size + 1, g.size + 2, g.size + 3)
                  IN  IF f.err # "ok"
                      THEN [s EXCEPT !.err = f.err, !.mf = f.mf]
                      ELSE RevealLoop(
                             [err |-> "ok", mf |-> f.mf,
                              visited_nodes |-> s.visited_nodes + 1,
                              max_matches |-> Max(s.max_matches, f.max_flow),
                              trends |-> Append(s.trends,
                                           <<s.visited_nodes + 1, f.max_flow>>)],
                             g, right_idx + 1, sourceSinkCap)

prepare_graph(fields, g, sourceSinkCap) ==
    RevealLoop([err |-> "ok", mf |-> fields,
                visited_nodes |-> g.size_left,
                max_matches |-> 0,
                trends |-> << <<g.size_left, 0>> >>],
               g, 0, sourceSinkCap)

\* run(graph): what the caller sees (the returned pair, or the exception) and
\* the fields the instance is left with
run(fields, g) ==
    LET p == prepare_graph(fields, g, 1)
    IN  IF p.err = "ok"
        THEN [outcome |-> "returned", matching_size |-> p.max_matches,
              trend |-> p.trends, mf |-> p.mf]
        ELSE [outcome |-> p.err, matching_size |-> 0, trend |-> <<>>,
              mf |-> p.mf]

(***************************************************************************)
(* Inputs                                                                  *)
(***************************************************************************)
\* Index arguments tried on a graph of n vertices: every valid index, the
\* first index past each end (n and -(n+1)), and the negative indices -1 and
\* -n that numpy accepts.
Indices(n) == {-(n + 1), -n, -1} \cup (0..n)

\* The js array of one bulk_connect call (its elements; order and repetition
\* do not change what the two assignments write)
JsChoices(n) == {js \in SUBSET Indices(n) : Cardinality(js) \in 1..MaxJs}

\* Whether every index of a call lies in [0, size)
AllValid(g, idxs) == idxs \subseteq 0..(g.size - 1)

\* A generator's construction of a bipartite graph: left vertex l is connected
\* to the right vertices adj[l] (indices within the right set)
RECURSIVE Generate(_, _, _)
Generate(g, adj, l) ==
    IF l >= g.size_left THEN g
    ELSE Generate(b_bulk_connect(g, l, adj[l]).graph, adj, l + 1)

\* Every bipartite graph whose <<size_left, size_right>> is in sizes
GraphsOn(sizes) ==
    UNION {{Generate(NewGraph(p[1], p[2]), adj, 0) :
              adj \in [0..(p[1] - 1) -> SUBSET (0..(p[2] - 1))]} :
           p \in sizes}

\* The graphs passed to MaxFlow.run
Graphs ==
    GraphsOn({p \in (0..MaxSize) \X (0..MaxSize) : p[1] + p[2] <= MaxSize})

NoCall == [op |-> "none", invalid |-> FALSE, raised |-> FALSE,
           left_set |-> FALSE, ret |-> <<>>]
NoRun == [outcome |-> "none", matching_size |-> 0, trend |-> <<>>]

(***************************************************************************)
(* SpecGraph: one FullMatrixBipartiteGraph, constructed and queried        *)
(***************************************************************************)
InitGraph ==
    /\ \E sl \in 0..MaxVertices, sr \in 0..MaxVertices :
          sl + sr <= MaxVertices /\ graph = NewGraph(sl, sr)
    /\ last = NoCall
    /\ mf = ClassFields
    /\ res = NoRun

BulkConnect(i, js) ==
    LET r == bulk_connect(graph, i, js)
    IN  /\ graph' = r.graph
        /\ last' = [op |-> "bulk_connect",
                    invalid |-> ~AllValid(graph, {i} \cup js),
                    raised |-> r.raised, left_set |-> FALSE, ret |-> <<>>]
        /\ UNCHANGED <<mf, res>>

BBulkConnect(left, rights) ==
    LET r == b_bulk_connect(graph, left, rights)
    IN  /\ graph' = r.graph
        /\ last' = [op |-> "b_bulk_connect",
                    invalid |-> ~AllValid(graph, {left} \cup
                                   {x + graph.size_left : x \in rights}),
                    raised |-> r.raised, left_set |-> FALSE, ret |-> <<>>]
        /\ UNCHANGED <<mf, res>>

GetIndependentSet(left_set) ==
    /\ last' = [op |-> "get_independent_set", invalid |-> FALSE,
                raised |-> FALSE, left_set |-> left_set,
                ret |-> get_independent_set(graph, left_set)]
    /\ UNCHANGED <<graph, mf, res>>

NextGraph ==
    \/ \E i \in Indices(graph.size), js \in JsChoices(graph.size) :
          BulkConnect(i, js)
    \/ \E left \in Indices(graph.size), js \in JsChoices(graph.size) :
          BBulkConnect(left, {j - graph.size_left : j \in js})
    \/ \E left_set \in BOOLEAN : GetIndependentSet(left_set)

SpecGraph == InitGraph /\ [][NextGraph]_vars

(***************************************************************************)
(* Spec: one MaxFlow instance; run is called on one graph after another    *)
(***************************************************************************)
\* A new MaxFlow instance; no graph has been passed to it yet (graph is the
\* graph of the latest run, the empty graph before the first).
Init ==
    /\ graph = NewGraph(0, 0)
    /\ last = NoCall
    /\ mf = ClassFields
    /\ res = NoRun

\* The caller (aggregate_testing) passes graph after graph to run and catches
\* nothing: the run that raises is the last.
Run(g) ==
    /\ res.outcome \in {"none", "returned"}
    /\ LET r == run(mf, g)
       IN  /\ mf' = r.mf
           /\ res' = [outcome |-> r.outcome, matching_size |-> r.matching_size,
                      trend |-> r.trend]
    /\ graph' = g
    /\ UNCHANGED last

Next == \E g \in Graphs : Run(g)

Spec == Init /\ [][Next]_vars

(***************************************************************************)
(* Properties                                                              *)
(***************************************************************************)
InSeq(x, seq) == \E k \in 1..Len(seq) : seq[k] = x

\* The edges between the left vertices and the first r right vertices
PrefixEdges(g, r) ==
    {e \in (0..(g.size_left - 1)) \X (g.size_left..(g.size_left + r - 1)) :
        connected(g, e[1], e[2])}

IsMatching(M) == \A e \in M, f \in M : e # f => (e[1] # f[1] /\ e[2] # f[2])

\* The maximum matching size of the subgraph induced by all left vertices and
\* the first r right vertices, by enumeration
MaxMatching(g, r) ==
    LET sizes == {Cardinality(M) :
                    M \in {X \in SUBSET PrefixEdges(g, r) : IsMatching(X)}}
    IN  CHOOSE k \in sizes : \A j \in sizes : j <= k

RunEnded == res.outcome # "none"
RunReturned == res.outcome = "returned"

\* C1: whenever MaxFlow.run has been called on a bipartite graph it returns a
\* trend whose entry r (r = 0..size_right) carries the maximum matching size
\* of the subgraph induced by all left vertices and the first r right
\* vertices, and the returned matching size is that of the full graph.
C1_TrendIsMaximumMatching ==
    RunEnded =>
        /\ RunReturned
        /\ Len(res.trend) = graph.size_right + 1
        /\ \A r \in 0..graph.size_right :
              res.trend[r + 1][2] = MaxMatching(graph, r)
        /\ res.matching_size = MaxMatching(graph, graph.size_right)

\* C2: whenever MaxFlow.run has been called it returns a trend of exactly
\* size_right + 1 entries, the first (b, 0) with b = 0 or b = size_left, the
\* first component growing by exactly 1 per entry, the last entry
\* (b + size_right, matching_size).
C2_TrendShape ==
    RunEnded =>
        /\ RunReturned
        /\ Len(res.trend) = graph.size_right + 1
        /\ res.trend[1][1] \in {0, graph.size_left}
        /\ res.trend[1][2] = 0
        /\ \A k \in 1..(Len(res.trend) - 1) :
              res.trend[k + 1][1] = res.trend[k][1] + 1
        /\ res.trend[Len(res.trend)] =
              <<res.trend[1][1] + graph.size_right, res.matching_size>>

\* C3: whenever MaxFlow.run has been called it returns a trend in which both
\* components of consecutive entries are non-decreasing, and the returned
\* matching_size equals the second component of the last entry.
C3_TrendMonotone ==
    RunEnded =>
        /\ RunReturned
        /\ \A k \in 1..(Len(res.trend) - 1) :
              /\ res.trend[k][1] <= res.trend[k + 1][1]
              /\ res.trend[k][2] <= res.trend[k + 1][2]
        /\ res.matching_size = res.trend[Len(res.trend)][2]

\* C4: whenever MaxFlow.run has been called it returns a matching_size of at
\* most min(size_left, size_right), and the flow it reports for reveal step r
\* is at most min(size_left, r).
C4_MatchingBound ==
    RunEnded =>
        /\ RunReturned
        /\ res.matching_size <= Min(graph.size_left, graph.size_right)
        /\ \A r \in 1..(Len(res.trend) - 1) :
              res.trend[r + 1][2] <= Min(graph.size_left, r)

\* C5: get_independent_set(left) returns exactly 0..size_left-1 in order and
\* get_independent_set(right) returns exactly size_left..size_left+size_right-1
\* in order (size_right entries).
C5_IndependentSets ==
    last.op = "get_independent_set" =>
        last.ret = IF last.left_set
                   THEN [k \in 1..graph.size_left |-> k - 1]
                   ELSE [k \in 1..graph.size_right |-> graph.size_left + k - 1]

\* C6: after any sequence of bulk_connect and b_bulk_connect calls on a freshly
\* constructed graph, connected(i, j) = connected(j, i) for all vertices i, j,
\* and j is in list(i) exactly when i is in list(j).
C6_Symmetric ==
    \A i \in 0..(graph.size - 1), j \in 0..(graph.size - 1) :
        /\ connected(graph, i, j) = connected(graph, j, i)
        /\ InSeq(j, list(graph, i)) <=> InSeq(i, list(graph, j))

\* C6 witness: a connecting call has succeeded and two distinct vertices are
\* connected, each listed by the other.
C6_Witness ==
    /\ last.op \in {"bulk_connect", "b_bulk_connect"}
    /\ ~last.raised
    /\ \E i \in 0..(graph.size - 1), j \in 0..(graph.size - 1) :
          i # j /\ connected(graph, i, j) /\ InSeq(j, list(graph, i))

\* C7: a bulk_connect call in which i or an element of others lies outside
\* [0, size), negative indices included, raises and leaves the adjacency
\* relation exactly as it was.
C7_InvalidIndexRejected ==
    [][(last'.op = "bulk_connect" /\ last'.invalid)
         => (last'.raised /\ graph' = graph)]_vars

\* What run returns, or raises, on a new MaxFlow instance
FreshRun(g) ==
    LET r == run(ClassFields, g)
    IN  [outcome |-> r.outcome, matching_size |-> r.matching_size,
         trend |-> r.trend]

\* C8: a run called on an instance on which earlier runs have been made
\* returns a (matching_size, trend) pair, the same pair that run returns for
\* that graph on a new instance.
C8_RunIndependentOfEarlierRuns ==
    [][RunEnded => (res'.outcome = "returned" /\ res' = FreshRun(graph'))]_vars

\* run_max_flow raises only NameError, and only after lines 48-50: a run that
\* ended so has entered run_max_flow, and the instance holds the network and
\* the reset visited list with which the function was entered.
RunMaxFlowEntered == res.outcome = "NameError"

\* the number of nodes prepare_graph passes to run_max_flow for the latest
\* graph
TotalNodes == graph.size + 3

\* every node pair (u, v) with capacity[u][v] > 0 has v in vec[u]
PositiveResidualIsListed(fields, n) ==
    \A u \in 0..(n - 1), v \in 0..(n - 1) :
        fields.capacity[u][v] > 0 => InSeq(v, fields.vec[u])

\* In the network with which run_max_flow is entered every positive capacity
\* is listed: make_edge, the only writer of both, appends v to vec[u] whenever
\* it sets capacity[u][v].
EntryNetworkIsListed ==
    RunMaxFlowEntered => PositiveResidualIsListed(mf, TotalNodes)

\* C10: MaxFlow.run on a constructed graph completes: it never ends in an
\* exception, and what it returns is a trend with an entry for every reveal
\* step.
C10_RunCompletes ==
    /\ res.outcome \in {"none", "returned"}
    /\ RunReturned => Len(res.trend) = graph.size_right + 1

=============================================================================
